---- MODULE Spec2Model ----
(***************************************************************************)
(* The product-creation endpoint of ctgpt.  The repository holds three     *)
(* implementations of the same endpoint:                                   *)
(*   "next"   src/api/create-product.ts, lines 1-205  (NextApiRequest)     *)
(*   "vercel" src/api/create-product.ts, lines 206-389 (VercelRequest)     *)
(*   "node"   src/create-product.ts                    (IncomingMessage)   *)
(* One request is served by one of them.  A handler runs atomically from   *)
(* one await to the next (JavaScript is single-threaded), so an action is  *)
(* the code between the answer to one outbound call and the issue of the   *)
(* next one, or the response.                                              *)
(***************************************************************************)
EXTENDS Integers, Sequences, FiniteSets, TLC

VARIABLES
    impl,        \* the implementation serving the request
    env,         \* process.env: secret, store, token, version
    req,         \* the inbound request: method, header x-ct-auth, body
    pc,          \* the await the handler is suspended at
    calls,       \* the outbound calls issued so far, in order, with their outcome
    created,     \* the product extracted from the creation call's answer
    locations,   \* the locations list of the last answered locations fetch
    locationId,  \* the location chosen for inventory writes
    idx,         \* the index of the created variant being reconciled
    responses,   \* the responses sent so far
    parked       \* the other request of the process, suspended at an await

vars == <<impl, env, req, pc, calls, created, locations, locationId, idx, responses,
         parked>>

(***************************************************************************)
(* Bounds of the model.                                                    *)
(***************************************************************************)
MaxVariants == 2
MaxLocations == 2

(***************************************************************************)
(* JavaScript values: a tag t and, where there is one, a value v.          *)
(***************************************************************************)
Undef == [t |-> "undefined"]
Null == [t |-> "null"]
Str(s) == [t |-> "string", v |-> s]
Num(n) == [t |-> "number", v |-> n]
NaN == [t |-> "NaN"]
Arr(s) == [t |-> "array", v |-> s]

\* !v : undefined, null, "", 0 and NaN are falsy; objects and arrays are truthy.
Falsy(v) ==
    \/ v.t \in {"undefined", "null", "NaN"}
    \/ v.t = "string" /\ v.v = ""
    \/ v.t = "number" /\ v.v = 0

\* a || b
Or(a, b) == IF Falsy(a) THEN b ELSE a

\* Numbers are held in hundredths, so that 12.5 is Num(1250) and 100 is
\* Whole(100) = Num(10000).
Whole(n) == Num(n * 100)

\* Number(v): a decimal string parses to its value, so Number("12.50") is 12.5;
\* a number is itself; null and "" are 0; anything else is NaN.
DecimalStrings == {"12.50", "7.25"}
Hundredths(s) == IF s = "12.50" THEN 1250 ELSE IF s = "7.25" THEN 725 ELSE 0
ToNumber(v) ==
    IF v.t = "number" THEN v
    ELSE IF v.t = "null" THEN Whole(0)
    ELSE IF v.t = "string" /\ v.v = "" THEN Whole(0)
    ELSE IF v.t = "string" /\ v.v \in DecimalStrings THEN Num(Hundredths(v.v))
    ELSE NaN

\* Number.isFinite(v)
IsFinite(v) == v.t = "number"

\* typeof v === "number" (NaN is a number to typeof)
TypeofNumber(v) == v.t \in {"number", "NaN"}

\* Array.isArray(v)
IsArray(v) == v.t = "array"

(***************************************************************************)
(* Inputs: the configuration, the inbound request, the upstream's answers. *)
(***************************************************************************)
SecretValues == {Undef, Str(""), Str("s1")}
HeaderValues == {Undef, Str(""), Str("s1"), Str("s2")}
StoreValues == {Undef, Str("shop.myshopify.com")}
TokenValues == {Undef, Str("shpat")}
VersionValues == {Undef, Str("2024-07")}
Methods == {"POST", "GET"}
Impls == {"next", "vercel", "node"}

Skus == {Undef, Str("A"), Str("B")}
Costs == {Undef, Str("12.50")}
Titles == {Undef, Str(""), Str("Premium T-Shirt")}

\* The sequences of length at most n whose element at position k is in At(k).
ListsUpTo(At(_), n) ==
    UNION {{s \in [1..k -> UNION {At(j) : j \in 1..k}] :
               \A j \in 1..k : s[j] \in At(j)} : k \in 0..n}

\* A variant spec at position k of the payload: the quantity, when there is
\* one, is 100 at the first position, 200 at the second, and so on.
InputVariantsAt(k) ==
    [t : {"object"}, sku : Skus, inventory_quantity : {Undef, Whole(100 * k)},
     cost : Costs]

\* The bodies tried with every configuration, method and header (no handler
\* reads the body before its method, secret and configuration tests): none,
\* a JSON text that is not an object (null, or malformed), and the product
\* objects with every title and no variants or the variant of the README.
ExampleVariant ==
    [t |-> "object", sku |-> Undef, inventory_quantity |-> Whole(100),
     cost |-> Str("12.50")]
GateBodies ==
    {Undef, Str("null"), Str("{")} \cup
    [t : {"object"}, title : Titles, variants : {Undef, Arr(<<ExampleVariant>>)}]

\* The request bodies: those, and the titled product objects with every
\* variants list.
Objects ==
    [t : {"object"}, title : {Str("Premium T-Shirt")},
     variants : {Undef} \cup {Arr(s) : s \in ListsUpTo(InputVariantsAt, MaxVariants)}]
Bodies == GateBodies \cup Objects

\* A created variant at position j of the created product: the upstream gives
\* every variant its own ids.
CreatedVariantsAt(j) ==
    [t : {"object"}, id : {Num(40 + j)}, sku : Skus,
     inventory_item_id : {Undef, Num(50 + j)}]
CreatedVariantLists == ListsUpTo(CreatedVariantsAt, MaxVariants)
Products ==
    [t : {"object"}, id : {Num(900)},
     variants : {Undef} \cup {Arr(s) : s \in CreatedVariantLists}]

\* The locations lists: the location at position j has id 100 + j.
LocationsAt(j) == [t : {"object"}, id : {Num(100 + j)}, active : BOOLEAN]
LocationLists == ListsUpTo(LocationsAt, MaxLocations)

(***************************************************************************)
(* The state after construction: a request has arrived, nothing has run.   *)
(***************************************************************************)
\* The process serves this request alone: no other request is suspended.
NoRequest == [id |-> 0, locals |-> Undef]

\* Every configuration, method and header with the bodies of GateBodies.
InitGate ==
    /\ impl \in Impls
    /\ env \in [secret : SecretValues, store : StoreValues, token : TokenValues,
                version : VersionValues]
    /\ req \in [method : Methods, xctauth : HeaderValues, body : GateBodies]
    /\ pc = "start"
    /\ calls = <<>>
    /\ created = Undef
    /\ locations = Undef
    /\ locationId = Undef
    /\ idx = 0
    /\ responses = <<>>
    /\ parked = NoRequest

\* The same, and every body with the configurations and headers that get the
\* request past the method, secret and required-configuration tests.
Init ==
    /\ impl \in Impls
    /\ \/ /\ env \in [secret : SecretValues, store : StoreValues,
                      token : TokenValues, version : VersionValues]
          /\ req \in [method : Methods, xctauth : HeaderValues, body : GateBodies]
       \/ /\ env \in [secret : {Str("s1")}, store : StoreValues \ {Undef},
                      token : TokenValues \ {Undef}, version : VersionValues]
          /\ req \in [method : {"POST"}, xctauth : {Str("s1")}, body : Bodies]
    /\ pc = "start"
    /\ calls = <<>>
    /\ created = Undef
    /\ locations = Undef
    /\ locationId = Undef
    /\ idx = 0
    /\ responses = <<>>
    /\ parked = NoRequest

(***************************************************************************)
(* What the three handlers share in shape: calls, answers, responses.      *)
(***************************************************************************)
\* An outbound call to the external API, as issued.
Call(api, method, id, body) ==
    [api |-> api, method |-> method, id |-> id, body |-> body, result |-> "pending"]

\* The calls with the answer r given to the call in flight.
Answered(r) == [calls EXCEPT ![Len(calls)].result = r]

\* A variant that sends the response and, with no return after it, sends it
\* again.
RespondTwice(status, body) ==
    /\ responses' = Append(Append(responses, [status |-> status, body |-> body]),
                           [status |-> status, body |-> body])
    /\ pc' = "done"

\* res.status(status).json(body), or res.statusCode = status; res.end(body).
Respond(status, body) ==
    /\ responses' = Append(responses, [status |-> status, body |-> body])
    /\ pc' = "done"

\* The first index of seq whose element satisfies Test, or 0.
FirstIndex(seq, Test(_)) ==
    LET hits == {k \in 1..Len(seq) : Test(seq[k])}
    IN IF hits = {} THEN 0 ELSE CHOOSE k \in hits : \A m \in hits : k <= m

\* req.headers[name]: Node lower-cases the names of the headers it parses, so
\* only the lower-case key is ever present.
Header(name) == IF name = "x-ct-auth" THEN req.xctauth ELSE Undef

\* JSON.parse(text) of the texts a body can be; a SyntaxError is thrown for
\* malformed text.
SyntaxError == [t |-> "SyntaxError"]
EmptyObject == [t |-> "object", title |-> Undef, variants |-> Undef]
JSONParse(text) ==
    IF text = Str("{}") THEN EmptyObject
    ELSE IF text = Str("null") THEN Null
    ELSE SyntaxError

(***************************************************************************)
(* "next": src/api/create-product.ts, handler(NextApiRequest).             *)
(***************************************************************************)
\* { ok: false, error: message }
NextError(message) == [ok |-> FALSE, error |-> message]

\* providedSecret, and the test that rejects the request as unauthorized.
NextProvidedSecret == Or(Header("x-ct-auth"), Header("X-CT-Auth"))
\* A variant of the test that lets a request without the header through.
NextUnauthorizedHeaderOptional ==
    Falsy(env.secret) \/ (~Falsy(NextProvidedSecret) /\ NextProvidedSecret # env.secret)
NextUnauthorized ==
    Falsy(env.secret) \/ NextProvidedSecret # env.secret

\* The environment validation.
NextConfigMissing ==
    Falsy(env.token) \/ Falsy(env.store) \/ Falsy(env.version)

\* payload: the body when it is an object, else the body text parsed.
NextPayload ==
    IF ~Falsy(req.body) /\ req.body.t = "object" THEN req.body
    ELSE JSONParse(Or(req.body, Str("{}")))

\* inputVariants and createdVariants, as sequences.
NextInputVariants ==
    IF IsArray(NextPayload.variants) THEN NextPayload.variants.v ELSE <<>>
NextCreatedVariants ==
    IF IsArray(created.variants) THEN created.variants.v ELSE <<>>

\* The input variant matched to the created variant at index i: by sku when
\* an input carries that sku, else the input at the same index, else null.
NextInputVariant(i) ==
    LET SameSku(v) ==
            ~Falsy(v) /\ ~Falsy(v.sku) /\ v.sku = NextCreatedVariants[i].sku
        k == FirstIndex(NextInputVariants, SameSku)
    IN IF k # 0 THEN NextInputVariants[k]
       ELSE IF i <= Len(NextInputVariants) THEN NextInputVariants[i]
       ELSE Null

\* The for loop from created variant i on, at the inventory update
\* (stage "set") or past it (stage "cost"): the next call it issues and the
\* await it stops at, or "done" when the loop ends.
RECURSIVE NextLoop(_, _, _)
NextLoop(i, stage, loc) ==
    IF i > Len(NextCreatedVariants) THEN [pc |-> "done"]
    ELSE
        LET inputVariant == NextInputVariant(i)
            inventoryItemId == NextCreatedVariants[i].inventory_item_id
        IN IF Falsy(inputVariant) THEN NextLoop(i + 1, "set", loc)
           ELSE IF Falsy(inventoryItemId) THEN NextLoop(i + 1, "set", loc)
           ELSE IF /\ stage = "set"
                   /\ inputVariant.inventory_quantity # Undef
                   /\ inputVariant.inventory_quantity # Null
           THEN [pc |-> "set", idx |-> i,
                 call |-> Call("inventory_levels/set", "POST", Undef,
                               [location_id |-> loc,
                                inventory_item_id |-> inventoryItemId,
                                available |-> ToNumber(inputVariant.inventory_quantity)])]
           ELSE IF /\ inputVariant.cost # Undef
                   /\ inputVariant.cost # Null
                   /\ IsFinite(ToNumber(inputVariant.cost))
           THEN [pc |-> "cost", idx |-> i,
                 call |-> Call("inventory_items", "PUT", inventoryItemId,
                               [id |-> inventoryItemId,
                                cost |-> ToNumber(inputVariant.cost)])]
           ELSE NextLoop(i + 1, "set", loc)

\* The loop runs on from (i, stage) after the call in flight was answered ok.
NextResume(i, stage, loc) ==
    LET step == NextLoop(i, stage, loc)
    IN IF step.pc = "done"
       THEN /\ calls' = Answered("ok")
            /\ Respond(200, [ok |-> TRUE, product |-> created])
            /\ idx' = i
       ELSE /\ calls' = Append(Answered("ok"), step.call)
            /\ pc' = step.pc
            /\ idx' = step.idx
            /\ UNCHANGED responses

\* shopifyFetch throws when fetch throws and when the status is not 2xx; the
\* handler's catch answers 500 with the error's message.
NextThrown(r, message) ==
    /\ calls' = Answered(r)
    /\ Respond(500, NextError(message))
    /\ UNCHANGED <<created, locations, locationId, idx>>

\* From the arrival of the request to the product-creation call.
NextStart ==
    /\ pc = "start"
    /\ impl = "next"
    /\ IF req.method # "POST"
       THEN Respond(405, NextError("Method Not Allowed")) /\ UNCHANGED calls
       ELSE IF NextUnauthorized
       THEN Respond(401, NextError("Unauthorized")) /\ UNCHANGED calls
       ELSE IF NextConfigMissing
       THEN Respond(500, NextError("environment variables must be set"))
            /\ UNCHANGED calls
       ELSE IF NextPayload = SyntaxError
       THEN Respond(500, NextError("SyntaxError")) /\ UNCHANGED calls
       ELSE IF Falsy(NextPayload) \/ NextPayload.t # "object"
       THEN Respond(400, NextError("Invalid JSON body")) /\ UNCHANGED calls
       ELSE /\ calls' = Append(calls, Call("products", "POST", Undef,
                                          [product |-> NextPayload]))
            /\ pc' = "create"
            /\ UNCHANGED responses
    /\ UNCHANGED <<parked, impl, env, req, created, locations, locationId, idx>>

\* The creation call is answered: the product is extracted, and the handler
\* responds or fetches the locations.
NextCreateReturn ==
    /\ pc = "create"
    /\ impl = "next"
    /\ \/ \E r \in {"fail", "throw"} : NextThrown(r, "Shopify error")
       \/ \E product \in {Undef} \cup Products :
            IF Falsy(product)
            THEN NextThrown("ok", "Product creation succeeded but response did not include product")
            ELSE /\ created' = product
                 /\ IF Len(NextInputVariants) = 0
                    THEN /\ calls' = Answered("ok")
                         /\ Respond(200, [ok |-> TRUE, product |-> product])
                    ELSE /\ calls' = Append(Answered("ok"),
                                            Call("locations", "GET", Undef, Undef))
                         /\ pc' = "locations"
                         /\ UNCHANGED responses
                 /\ UNCHANGED <<locations, locationId, idx>>
    /\ UNCHANGED <<parked, impl, env, req>>

\* The locations fetch is answered: the first location is taken and the
\* loop over the created variants starts.
NextLocationsReturn ==
    /\ pc = "locations"
    /\ impl = "next"
    /\ \/ \E r \in {"fail", "throw"} : NextThrown(r, "Shopify error")
       \/ \E list \in LocationLists :
            IF Len(list) = 0
            THEN /\ calls' = Answered("ok")
                 /\ Respond(500, NextError("No locations found for store; cannot set inventory levels"))
                 /\ locations' = Arr(list)
                 /\ UNCHANGED <<created, locationId, idx>>
            ELSE /\ locations' = Arr(list)
                 /\ locationId' = list[1].id
                 /\ NextResume(1, "set", list[1].id)
                 /\ UNCHANGED created
    /\ UNCHANGED <<parked, impl, env, req>>

\* The set-inventory call is answered.
NextSetReturn ==
    /\ pc = "set"
    /\ impl = "next"
    /\ \/ \E r \in {"fail", "throw"} : NextThrown(r, "Shopify error")
       \/ NextResume(idx, "cost", locationId)
          /\ UNCHANGED <<created, locations, locationId>>
    /\ UNCHANGED <<parked, impl, env, req>>

\* The cost update is answered.
NextCostReturn ==
    /\ pc = "cost"
    /\ impl = "next"
    /\ \/ \E r \in {"fail", "throw"} : NextThrown(r, "Shopify error")
       \/ NextResume(idx + 1, "set", locationId)
          /\ UNCHANGED <<created, locations, locationId>>
    /\ UNCHANGED <<parked, impl, env, req>>

(***************************************************************************)
(* "vercel": src/api/create-product.ts, handler(VercelRequest).            *)
(***************************************************************************)
VercelError(message) == [ok |-> FALSE, error |-> message]

VercelUnauthorized ==
    Falsy(Header("x-ct-auth")) \/ Falsy(env.secret) \/ Header("x-ct-auth") # env.secret

VercelConfigMissing == Falsy(env.store) \/ Falsy(env.token)

\* !productData || !productData.title : a body that is a text has no title.
VercelNoTitle ==
    Falsy(req.body) \/ req.body.t # "object" \/ Falsy(req.body.title)

\* product.variants of the created product, and the request variant found for
\* the created variant at index i: the one at the same index.
VercelCreatedVariants(product) ==
    IF IsArray(product.variants) THEN product.variants.v ELSE <<>>
VercelRequestVariant(i) ==
    IF IsArray(req.body.variants) /\ i <= Len(req.body.variants.v)
    THEN req.body.variants.v[i]
    ELSE Undef

\* The for loop from created variant i on, at the cost update (stage "cost")
\* or past it (stage "inventory"): the next call and await, or "done".
RECURSIVE VercelLoop(_, _, _)
VercelLoop(product, i, stage) ==
    IF i > Len(VercelCreatedVariants(product)) THEN [pc |-> "done"]
    ELSE
        LET variant == VercelCreatedVariants(product)[i]
            requestVariant == VercelRequestVariant(i)
        IN IF Falsy(requestVariant) THEN VercelLoop(product, i + 1, "cost")
           ELSE IF /\ stage = "cost"
                   /\ ~Falsy(requestVariant.cost)
                   /\ ~Falsy(variant.id)
           THEN [pc |-> "cost", idx |-> i,
                 call |-> Call("variants", "PUT", variant.id,
                               [id |-> variant.id, cost |-> requestVariant.cost])]
           ELSE IF /\ requestVariant.inventory_quantity # Undef
                   /\ ~Falsy(variant.inventory_item_id)
           THEN [pc |-> "locations", idx |-> i,
                 call |-> Call("locations", "GET", Undef, Undef)]
           ELSE VercelLoop(product, i + 1, "cost")

\* The loop runs on from (i, stage) after the call in flight was answered r:
\* the handler does not look at the status of its secondary calls.
VercelResume(product, r, i, stage) ==
    LET step == VercelLoop(product, i, stage)
    IN IF step.pc = "done"
       THEN /\ calls' = Answered(r)
            /\ Respond(200, [ok |-> TRUE, product |-> product])
            /\ idx' = i
       ELSE /\ calls' = Append(Answered(r), step.call)
            /\ pc' = step.pc
            /\ idx' = step.idx
            /\ UNCHANGED responses

\* fetch throws, or a TypeError is thrown: the catch answers 500.
VercelThrown(r, message) ==
    /\ calls' = Answered(r)
    /\ Respond(500, VercelError(message))
    /\ UNCHANGED <<created, locations, locationId, idx>>

VercelStart ==
    /\ pc = "start"
    /\ impl = "vercel"
    /\ IF req.method # "POST"
       THEN Respond(405, VercelError("Method not allowed")) /\ UNCHANGED calls
       ELSE IF VercelUnauthorized
       THEN Respond(401, VercelError("Unauthorized")) /\ UNCHANGED calls
       ELSE IF VercelConfigMissing
       THEN Respond(500, VercelError("Missing required Shopify configuration"))
            /\ UNCHANGED calls
       ELSE IF VercelNoTitle
       THEN Respond(400, VercelError("Missing required product data (title)"))
            /\ UNCHANGED calls
       ELSE /\ calls' = Append(calls, Call("products", "POST", Undef,
                                          [product |-> req.body]))
            /\ pc' = "create"
            /\ UNCHANGED responses
    /\ UNCHANGED <<parked, impl, env, req, created, locations, locationId, idx>>

VercelCreateReturn ==
    /\ pc = "create"
    /\ impl = "vercel"
    /\ \/ VercelThrown("throw", "fetch failed")
       \/ /\ calls' = Answered("fail")
          /\ Respond(500, VercelError("Failed to create product"))
          /\ UNCHANGED <<created, locations, locationId, idx>>
       \/ \E product \in {Undef} \cup Products :
            IF product = Undef
            THEN VercelThrown("ok", "TypeError")
            ELSE /\ created' = product
                 /\ VercelResume(product, "ok", 1, "cost")
                 /\ UNCHANGED <<locations, locationId>>
    /\ UNCHANGED <<parked, impl, env, req>>

VercelCostReturn ==
    /\ pc = "cost"
    /\ impl = "vercel"
    /\ \/ VercelThrown("throw", "fetch failed")
       \/ \E r \in {"ok", "fail"} :
            /\ VercelResume(created, r, idx, "inventory")
            /\ UNCHANGED <<created, locations, locationId>>
    /\ UNCHANGED <<parked, impl, env, req>>

\* The locations fetch made for one variant is answered: with a first
\* location the inventory level is set, without one the variant is left.
VercelLocationsReturn ==
    /\ pc = "locations"
    /\ impl = "vercel"
    /\ \/ VercelThrown("throw", "fetch failed")
       \/ /\ VercelResume(created, "fail", idx + 1, "cost")
          /\ UNCHANGED <<created, locations, locationId>>
       \/ \E list \in LocationLists :
            /\ locations' = Arr(list)
            /\ UNCHANGED created
            /\ IF Len(list) = 0
               THEN VercelResume(created, "ok", idx + 1, "cost") /\ UNCHANGED locationId
               ELSE /\ locationId' = list[1].id
                    /\ calls' = Append(Answered("ok"),
                         Call("inventory_levels/set", "POST", Undef,
                              [location_id |-> list[1].id,
                               inventory_item_id |->
                                   VercelCreatedVariants(created)[idx].inventory_item_id,
                               available |->
                                   VercelRequestVariant(idx).inventory_quantity]))
                    /\ pc' = "set"
                    /\ UNCHANGED <<idx, responses>>
    /\ UNCHANGED <<parked, impl, env, req>>

VercelSetReturn ==
    /\ pc = "set"
    /\ impl = "vercel"
    /\ \/ VercelThrown("throw", "fetch failed")
       \/ \E r \in {"ok", "fail"} :
            /\ VercelResume(created, r, idx + 1, "cost")
            /\ UNCHANGED <<created, locations, locationId>>
    /\ UNCHANGED <<parked, impl, env, req>>

(***************************************************************************)
(* "node": src/create-product.ts, handler(IncomingMessage).                *)
(***************************************************************************)
\* The error bodies of this handler carry no ok field.
NodeError(message) == [error |-> message]

\* A variant of the test that does not look at whether a secret is configured.
NodeUnauthorizedNoSecretTest == Header("x-ct-auth") # env.secret
NodeUnauthorized ==
    Falsy(env.secret) \/ Header("x-ct-auth") # env.secret

NodeConfigMissing == Falsy(env.store) \/ Falsy(env.token)

\* readBody: no data is {}, an object's text is the object, other text is
\* parsed; then body || {}.
NodeReadBody ==
    IF req.body = Undef THEN EmptyObject
    ELSE IF req.body.t = "object" THEN req.body
    ELSE JSONParse(req.body)
NodeBody == IF Falsy(NodeReadBody) THEN EmptyObject ELSE NodeReadBody

\* !title || !variants || !Array.isArray(variants) || variants.length === 0
NodeBadPayload ==
    \/ Falsy(NodeBody.title)
    \/ Falsy(NodeBody.variants)
    \/ ~IsArray(NodeBody.variants)
    \/ Len(NodeBody.variants.v) = 0

\* productPayload: the variants are mapped field by field; cost and
\* inventory_quantity are not among the mapped fields.
NodeProductPayload ==
    [product |->
        [t |-> "object", title |-> NodeBody.title,
         variants |-> Arr([k \in 1..Len(NodeBody.variants.v) |->
                              [t |-> "object", sku |-> NodeBody.variants.v[k].sku]])]]

\* The location: the first active one, else the first one, else undefined.
NodeLocation(list) ==
    LET Active(l) == l.active
        k == FirstIndex(list, Active)
    IN IF k # 0 THEN list[k]
       ELSE IF Len(list) > 0 THEN list[1]
       ELSE Undef

\* createdVariants = product?.variants || [], and requested = variants[i].
NodeCreatedVariants(product) ==
    IF product # Undef /\ IsArray(product.variants) THEN product.variants.v ELSE <<>>
NodeRequested(i) ==
    IF i <= Len(NodeBody.variants.v) THEN NodeBody.variants.v[i] ELSE Undef

\* The for loop from created variant i on, at the inventory update (stage
\* "set") or past it (stage "cost"): the next call and await, or "done".
RECURSIVE NodeLoop(_, _, _)
NodeLoop(product, i, stage) ==
    IF i > Len(NodeCreatedVariants(product)) THEN [pc |-> "done"]
    ELSE
        LET createdVariant == NodeCreatedVariants(product)[i]
            requested == NodeRequested(i)
        IN IF /\ stage = "set"
              /\ requested # Undef
              /\ TypeofNumber(requested.inventory_quantity)
           THEN [pc |-> "set", idx |-> i,
                 call |-> Call("inventory_levels/set", "POST", Undef,
                               [location_id |-> locationId,
                                inventory_item_id |-> createdVariant.inventory_item_id,
                                available |-> requested.inventory_quantity])]
           ELSE IF requested # Undef /\ ~Falsy(requested.cost)
           THEN [pc |-> "cost", idx |-> i,
                 call |-> Call("inventory_items", "PUT",
                               createdVariant.inventory_item_id,
                               [id |-> createdVariant.inventory_item_id,
                                cost |-> requested.cost])]
           ELSE NodeLoop(product, i + 1, "set")

\* The catch: 500 with the error's message.
NodeThrown(r, message) ==
    /\ calls' = Answered(r)
    /\ Respond(500, NodeError(message))
    /\ UNCHANGED <<created, locations, locationId, idx>>

\* The loop runs on from (i, stage) after the call in flight was answered r.
\* After the loop the response reads product.id, which throws when the
\* creation answer carried no product.
NodeResume(product, r, i, stage) ==
    LET step == NodeLoop(product, i, stage)
    IN IF step.pc = "done"
       THEN /\ calls' = Answered(r)
            /\ IF product = Undef
               THEN Respond(500, NodeError("TypeError"))
               ELSE Respond(200, [ok |-> TRUE, product |-> [id |-> product.id]])
            /\ idx' = i
       ELSE /\ calls' = Append(Answered(r), step.call)
            /\ pc' = step.pc
            /\ idx' = step.idx
            /\ UNCHANGED responses

\* From the arrival of the request to the locations fetch.
NodeStart ==
    /\ pc = "start"
    /\ impl = "node"
    /\ IF req.method # "POST"
       THEN Respond(405, NodeError("Method Not Allowed")) /\ UNCHANGED calls
       ELSE IF NodeUnauthorized
       THEN Respond(401, NodeError("Unauthorized")) /\ UNCHANGED calls
       ELSE IF NodeConfigMissing
       THEN Respond(500, NodeError("Missing SHOPIFY_STORE or SHOPIFY_ADMIN_TOKEN env vars"))
            /\ UNCHANGED calls
       ELSE IF NodeReadBody = SyntaxError
       THEN Respond(500, NodeError("SyntaxError")) /\ UNCHANGED calls
       ELSE IF NodeBadPayload
       THEN Respond(400, NodeError("title and at least one variant are required"))
            /\ UNCHANGED calls
       ELSE /\ calls' = Append(calls, Call("locations", "GET", Undef, Undef))
            /\ pc' = "locations"
            /\ UNCHANGED responses
    /\ UNCHANGED <<parked, impl, env, req, created, locations, locationId, idx>>

\* The locations fetch is answered: the location is chosen and the product
\* is created.
NodeLocationsReturn ==
    /\ pc = "locations"
    /\ impl = "node"
    /\ \/ NodeThrown("throw", "fetch failed")
       \/ NodeThrown("fail", "Failed to fetch locations")
       \/ \E list \in LocationLists :
            IF Falsy(NodeLocation(list))
            THEN /\ calls' = Answered("ok")
                 /\ Respond(500, NodeError("No Shopify locations found on this store."))
                 /\ locations' = Arr(list)
                 /\ UNCHANGED <<created, locationId, idx>>
            ELSE /\ locations' = Arr(list)
                 /\ locationId' = NodeLocation(list).id
                 /\ calls' = Append(Answered("ok"),
                                    Call("products", "POST", Undef, NodeProductPayload))
                 /\ pc' = "create"
                 /\ UNCHANGED <<created, idx, responses>>
    /\ UNCHANGED <<parked, impl, env, req>>

\* The creation call is answered.
NodeCreateReturn ==
    /\ pc = "create"
    /\ impl = "node"
    /\ \/ NodeThrown("throw", "fetch failed")
       \/ NodeThrown("fail", "Product create failed")
       \/ \E product \in {Undef} \cup Products :
            /\ created' = product
            /\ NodeResume(product, "ok", 1, "set")
            /\ UNCHANGED <<locations, locationId>>
    /\ UNCHANGED <<parked, impl, env, req>>

\* The set-inventory call is answered: a non-2xx status is logged.
NodeSetReturn ==
    /\ pc = "set"
    /\ impl = "node"
    /\ \/ NodeThrown("throw", "fetch failed")
       \/ \E r \in {"ok", "fail"} :
            /\ NodeResume(created, r, idx, "cost")
            /\ UNCHANGED <<created, locations, locationId>>
    /\ UNCHANGED <<parked, impl, env, req>>

\* The cost update is answered: a non-2xx status is logged.
NodeCostReturn ==
    /\ pc = "cost"
    /\ impl = "node"
    /\ \/ NodeThrown("throw", "fetch failed")
       \/ \E r \in {"ok", "fail"} :
            /\ NodeResume(created, r, idx + 1, "set")
            /\ UNCHANGED <<created, locations, locationId>>
    /\ UNCHANGED <<parked, impl, env, req>>

Next ==
    \/ NextStart
    \/ NextCreateReturn
    \/ NextLocationsReturn
    \/ NextSetReturn
    \/ NextCostReturn
    \/ VercelStart
    \/ VercelCreateReturn
    \/ VercelCostReturn
    \/ VercelLocationsReturn
    \/ VercelSetReturn
    \/ NodeStart
    \/ NodeLocationsReturn
    \/ NodeCreateReturn
    \/ NodeSetReturn
    \/ NodeCostReturn

Spec == Init /\ [][Next]_vars

SpecGate == InitGate /\ [][Next]_vars

(***************************************************************************)
(* Requests whose variants carry every kind of inventory_quantity a JSON   *)
(* payload can give: none, null, a text that is no number, a number.       *)
(***************************************************************************)
QuantityValuesAt(k) == {Undef, Null, Str("many"), Whole(100 * k)}
QuantityVariantsAt(k) ==
    [t : {"object"}, sku : {Undef}, inventory_quantity : QuantityValuesAt(k),
     cost : Costs]
QuantityBodies ==
    [t : {"object"}, title : {Str("Premium T-Shirt")},
     variants : {Arr(s) : s \in ListsUpTo(QuantityVariantsAt, MaxVariants)}]

\* An authenticated request with complete configuration and such a body.
InitQuantity ==
    /\ impl \in Impls
    /\ env = [secret |-> Str("s1"), store |-> Str("shop.myshopify.com"),
              token |-> Str("shpat"), version |-> Str("2024-07")]
    /\ req \in [method : {"POST"}, xctauth : {Str("s1")}, body : QuantityBodies]
    /\ pc = "start"
    /\ calls = <<>>
    /\ created = Undef
    /\ locations = Undef
    /\ locationId = Undef
    /\ idx = 0
    /\ responses = <<>>
    /\ parked = NoRequest

SpecQuantity == InitQuantity /\ [][Next]_vars

\* The requests of SpecGate when the runtime keeps its promises: the handler is
\* run for a request that has arrived, and every outbound call in flight is
\* answered or throws in the end, which resumes the handler at its await.
SpecLive == InitGate /\ [][Next]_vars /\ WF_vars(Next)

(***************************************************************************)
(* Two requests in one process.  Everything a handler writes is a const or *)
(* let of its own invocation (or of shopifyFetch, readBody): the closure   *)
(* of the invocation keeps it while the handler is suspended at an await   *)
(* and the event loop runs the other request.  The process shares the      *)
(* environment, which the module reads once and no handler writes.         *)
(***************************************************************************)
\* The closure of the running invocation.
Locals ==
    [req |-> req, pc |-> pc, calls |-> calls, created |-> created,
     locations |-> locations, locationId |-> locationId, idx |-> idx,
     responses |-> responses]

\* The second request: authenticated, with a title and no variants.
OtherRequests ==
    [method : {"POST"}, xctauth : {Str("s1")},
     body : [t : {"object"}, title : {Str("Premium T-Shirt")}, variants : {Undef}]]

\* Request 1 carries the variant of the README; request 2 has arrived too.
InitTwo ==
    /\ impl \in Impls
    /\ env = [secret |-> Str("s1"), store |-> Str("shop.myshopify.com"),
              token |-> Str("shpat"), version |-> Str("2024-07")]
    /\ req = [method |-> "POST", xctauth |-> Str("s1"),
              body |-> [t |-> "object", title |-> Str("Premium T-Shirt"),
                        variants |-> Arr(<<ExampleVariant>>)]]
    /\ pc = "start"
    /\ calls = <<>>
    /\ created = Undef
    /\ locations = Undef
    /\ locationId = Undef
    /\ idx = 0
    /\ responses = <<>>
    /\ \E other \in OtherRequests :
          parked = [id |-> 2,
                    locals |-> [req |-> other, pc |-> "start", calls |-> <<>>,
                                created |-> Undef, locations |-> Undef,
                                locationId |-> Undef, idx |-> 0,
                                responses |-> <<>>]]

\* A variant in which the payload lives in a variable of the module, which
\* the two invocations share.
SwitchSharedPayload ==
    /\ parked.id # 0
    /\ parked' = [id |-> 3 - parked.id, locals |-> Locals]
    /\ pc' = parked.locals.pc
    /\ calls' = parked.locals.calls
    /\ created' = parked.locals.created
    /\ locations' = parked.locals.locations
    /\ locationId' = parked.locals.locationId
    /\ idx' = parked.locals.idx
    /\ responses' = parked.locals.responses
    /\ UNCHANGED <<impl, env, req>>

\* The event loop leaves the running invocation at its await and runs the
\* other one from where it was suspended.
Switch ==
    /\ parked.id # 0
    /\ parked' = [id |-> 3 - parked.id, locals |-> Locals]
    /\ req' = parked.locals.req
    /\ pc' = parked.locals.pc
    /\ calls' = parked.locals.calls
    /\ created' = parked.locals.created
    /\ locations' = parked.locals.locations
    /\ locationId' = parked.locals.locationId
    /\ idx' = parked.locals.idx
    /\ responses' = parked.locals.responses
    /\ UNCHANGED <<impl, env>>

NextTwo == Next \/ Switch

SpecTwo == InitTwo /\ [][NextTwo]_vars

(***************************************************************************)
(* The properties.                                                         *)
(***************************************************************************)
Responded == Len(responses) > 0
Status == responses[1].status
Body == responses[1].body

\* The indices of the outbound calls to one api.
CallsTo(api) == {k \in 1..Len(calls) : calls[k].api = api}

\* The header is missing, or is not the configured secret.
HeaderMissingOrIncorrect == req.xctauth = Undef \/ req.xctauth # env.secret

\* C1: a POST request whose X-CT-Auth header is missing or incorrect is
\* answered 401, and no outbound call is ever issued for it, whatever the
\* body and the Shopify configuration.
C1_UnauthorizedIs401 ==
    (req.method = "POST" /\ HeaderMissingOrIncorrect) =>
        /\ calls = <<>>
        /\ pc \in {"start", "done"}
        /\ pc = "done" => Len(responses) = 1 /\ Status = 401

C1_Witness ==
    /\ pc = "done" /\ req.method = "POST"
    /\ env.secret = Str("s1") /\ req.xctauth = Str("s2")
    /\ ~Falsy(env.store) /\ ~Falsy(env.token) /\ ~Falsy(env.version)
    /\ req.body \in Objects
    /\ Responded /\ Status = 401 /\ calls = <<>>

\* C2: with the shared secret absent or empty, every POST request is
\* answered 401 whatever the header is: a missing header does not match an
\* absent secret, nor an empty header an empty secret.
C2_NoSecretIs401 ==
    (req.method = "POST" /\ Falsy(env.secret)) =>
        /\ calls = <<>>
        /\ pc \in {"start", "done"}
        /\ pc = "done" => Len(responses) = 1 /\ Status = 401

C2_Witness ==
    /\ pc = "done" /\ req.method = "POST"
    /\ env.secret = Undef /\ req.xctauth = Undef
    /\ ~Falsy(env.store) /\ ~Falsy(env.token) /\ ~Falsy(env.version)
    /\ Responded /\ Status = 401 /\ calls = <<>>

\* C3: a request whose method is not POST is answered 405 with the body
\* {ok: false, error: "Method Not Allowed"}, whatever its headers and body,
\* and no outbound call is issued.
C3_MethodNotAllowed ==
    (req.method # "POST" /\ pc = "done") =>
        /\ responses = <<[status |-> 405,
                          body |-> [ok |-> FALSE, error |-> "Method Not Allowed"]]>>
        /\ calls = <<>>

\* The configuration is complete and the request carries the secret.
Authenticated ==
    /\ req.method = "POST"
    /\ ~Falsy(env.secret) /\ req.xctauth = env.secret
CompleteConfiguration ==
    ~Falsy(env.store) /\ ~Falsy(env.token) /\ ~Falsy(env.version)

\* C4: an authenticated POST request, with complete configuration, whose
\* payload has no title or an empty title is answered 400, and no call to the
\* external API is issued for it.
C4_NoTitleIs400 ==
    (/\ Authenticated /\ CompleteConfiguration
     /\ req.body.t = "object" /\ Falsy(req.body.title)) =>
        /\ calls = <<>>
        /\ pc \in {"start", "done"}
        /\ pc = "done" => Len(responses) = 1 /\ Status = 400

\* The body {ok: false, error: <message>}.
IsFailureBody(b) == DOMAIN b = {"ok", "error"} /\ b.ok = FALSE
\* The body {ok: true, product: <product>}.
IsSuccessBody(b) == DOMAIN b = {"ok", "product"} /\ b.ok = TRUE

\* C5: when the product-creation call is answered with a non-success status,
\* the response is 500 with ok: false, and the request holds no locations
\* fetch, no set-inventory call and no cost update, before or after the
\* creation call.
C5_CreateFailedIs500 ==
    (\E k \in CallsTo("products") : calls[k].result = "fail") =>
        /\ Len(responses) = 1 /\ Status = 500 /\ IsFailureBody(Body)
        /\ \A k \in 1..Len(calls) : calls[k].api = "products"

\* The variant specs of the payload and the variants of the created product.
InputList ==
    IF req.body.t = "object" /\ IsArray(req.body.variants)
    THEN req.body.variants.v ELSE <<>>
CreatedList ==
    IF created # Undef /\ IsArray(created.variants) THEN created.variants.v ELSE <<>>

\* The pairing of the specification: the input variant with the sku of created
\* variant j when both sides give one, else the input variant at index j; 0
\* when there is neither.
PairedIndex(j) ==
    LET same == {m \in 1..Len(InputList) :
                    /\ CreatedList[j].sku # Undef
                    /\ InputList[m].sku = CreatedList[j].sku}
    IN IF same # {} THEN CHOOSE m \in same : \A n \in same : m <= n
       ELSE IF j <= Len(InputList) THEN j
       ELSE 0

\* The calls that write a cost for created variant j, on the inventory item or
\* on the variant, and those that set its inventory level.
CostCallsFor(j) ==
    {k \in 1..Len(calls) :
        \/ calls[k].api = "inventory_items"
           /\ calls[k].id = CreatedList[j].inventory_item_id
        \/ calls[k].api = "variants" /\ calls[k].id = CreatedList[j].id}
SetCallsFor(j) ==
    {k \in CallsTo("inventory_levels/set") :
        calls[k].body.inventory_item_id = CreatedList[j].inventory_item_id}

\* No call of the request failed or threw, but for set-inventory calls
\* answered with a non-success status.
OnlySetCallsFailed ==
    \A k \in 1..Len(calls) :
        \/ calls[k].result = "ok"
        \/ calls[k].api = "inventory_levels/set" /\ calls[k].result = "fail"

\* Pairing by sku and pairing by position agree on every created variant.
PairingUnambiguous ==
    \A j \in 1..Len(CreatedList) : PairedIndex(j) \in {0, j}

\* C6: when a set-inventory call for a variant is answered with a non-success
\* status (and nothing else goes wrong), the request is not aborted: the cost
\* of that variant is written when the paired input has a cost, and the
\* response is 200 with ok: true.  Stated for the requests whose pairing is
\* unambiguous, and for a cost update on either resource, in any order.
C6_SetFailureTolerated ==
    (/\ pc = "done"
     /\ OnlySetCallsFailed
     /\ PairingUnambiguous
     /\ \E k \in CallsTo("inventory_levels/set") : calls[k].result = "fail") =>
        /\ Len(responses) = 1 /\ Status = 200 /\ IsSuccessBody(Body)
        /\ \A j \in 1..Len(CreatedList) :
              \A k \in SetCallsFor(j) :
                 (/\ calls[k].result = "fail"
                  /\ PairedIndex(j) # 0
                  /\ InputList[PairedIndex(j)].cost # Undef) =>
                     CostCallsFor(j) # {}

\* C7: for a payload with exactly one variant that carries a quantity and a
\* cost, and a creation call answered with one created variant that has an
\* inventory_item_id (every call succeeding, the locations list not empty),
\* the calls after the creation call are exactly a locations fetch, a
\* set-inventory call with the input quantity and a PUT of the input cost on
\* inventory_items/{id}, in that order, and the response is 200 with ok: true.
C7_OneVariantCalls ==
    (/\ pc = "done"
     /\ Authenticated
     /\ req.body.t = "object" /\ ~Falsy(req.body.title)
     /\ Len(InputList) = 1
     /\ InputList[1].inventory_quantity # Undef /\ InputList[1].cost # Undef
     /\ Len(CreatedList) = 1
     /\ CreatedList[1].inventory_item_id # Undef
     /\ \A k \in 1..Len(calls) : calls[k].result = "ok"
     /\ locations # Undef /\ Len(locations.v) > 0) =>
        /\ \E k \in CallsTo("products") :
              /\ CallsTo("products") = {k}
              /\ Len(calls) = k + 3
              /\ calls[k + 1].api = "locations" /\ calls[k + 1].method = "GET"
              /\ calls[k + 2].api = "inventory_levels/set"
              /\ calls[k + 2].method = "POST"
              /\ calls[k + 2].body.inventory_item_id = CreatedList[1].inventory_item_id
              /\ ToNumber(calls[k + 2].body.available)
                    = ToNumber(InputList[1].inventory_quantity)
              /\ calls[k + 3].api = "inventory_items" /\ calls[k + 3].method = "PUT"
              /\ calls[k + 3].id = CreatedList[1].inventory_item_id
              /\ ToNumber(calls[k + 3].body.cost) = ToNumber(InputList[1].cost)
        /\ Len(responses) = 1 /\ Status = 200 /\ IsSuccessBody(Body)

\* The input variants carry distinct skus, and the created variants carry the
\* same skus in another order, each with its inventory_item_id.
SkusReordered ==
    /\ Len(InputList) >= 2 /\ Len(CreatedList) = Len(InputList)
    /\ \A m \in 1..Len(InputList) : InputList[m].sku # Undef
    /\ \A m, n \in 1..Len(InputList) :
          m # n => InputList[m].sku # InputList[n].sku
    /\ \A j \in 1..Len(CreatedList) :
          /\ CreatedList[j].inventory_item_id # Undef
          /\ \E m \in 1..Len(InputList) : InputList[m].sku = CreatedList[j].sku
    /\ \A i, j \in 1..Len(CreatedList) :
          i # j => CreatedList[i].sku # CreatedList[j].sku
    /\ \E j \in 1..Len(CreatedList) : CreatedList[j].sku # InputList[j].sku

\* The input variant that has the sku of created variant j.
SameSkuInput(j) ==
    InputList[CHOOSE m \in 1..Len(InputList) : InputList[m].sku = CreatedList[j].sku]

\* C8: when the input variants carry distinct skus and the created variants
\* carry the same skus in another order, every created variant is reconciled
\* with the quantity and the cost of the input variant with its sku, never
\* with those of the input variant at its position: each call written for it
\* carries that input's value, and a request that ends well has written every
\* value that input gives.
C8_PairedBySku ==
    SkusReordered =>
        \A j \in 1..Len(CreatedList) :
            /\ \A k \in SetCallsFor(j) :
                  /\ SameSkuInput(j).inventory_quantity # Undef
                  /\ ToNumber(calls[k].body.available)
                        = ToNumber(SameSkuInput(j).inventory_quantity)
            /\ \A k \in CostCallsFor(j) :
                  /\ SameSkuInput(j).cost # Undef
                  /\ ToNumber(calls[k].body.cost) = ToNumber(SameSkuInput(j).cost)
            /\ (pc = "done" /\ Responded /\ Status = 200) =>
                  /\ SameSkuInput(j).inventory_quantity # Undef => SetCallsFor(j) # {}
                  /\ SameSkuInput(j).cost # Undef => CostCallsFor(j) # {}

\* C9: when the input has variants and the locations list the external API
\* returns is empty, the response is 500 with ok: false although the creation
\* call has succeeded; no set-inventory call and no cost update is issued,
\* nor any call that deletes the created product.
C9_NoLocationsIs500 ==
    (pc = "done" /\ Len(InputList) > 0 /\ locations = Arr(<<>>)) =>
        /\ Len(responses) = 1 /\ Status = 500 /\ IsFailureBody(Body)
        /\ \E k \in CallsTo("products") : calls[k].result = "ok"
        /\ \A k \in 1..Len(calls) :
              /\ calls[k].api \in {"products", "locations"}
              /\ calls[k].method # "DELETE"

\* C10: every response has a status among 200, 400, 401, 405 and 500; the
\* status is 200 exactly when the body is {ok: true, product: ...}, and then
\* the creation call was issued and succeeded; every other response has a
\* body {ok: false, error: <message>}.
C10_ResponseShape ==
    \A i \in 1..Len(responses) :
        LET r == responses[i]
        IN /\ r.status \in {200, 400, 401, 405, 500}
           /\ r.status = 200 <=> IsSuccessBody(r.body)
           /\ r.status = 200 => \E k \in CallsTo("products") : calls[k].result = "ok"
           /\ r.status # 200 => IsFailureBody(r.body)

\* The request got past the method, secret and configuration tests with a
\* product object that has a title.
TitledRequest ==
    /\ Authenticated /\ CompleteConfiguration
    /\ req.body.t = "object" /\ ~Falsy(req.body.title)

\* C11: an authenticated POST request with a title and no variants (absent,
\* or an empty array) succeeds: one product-creation call is issued and no
\* other call, and when that call is answered with a product the response is
\* 200 with ok: true.
C11_NoVariantsSucceeds ==
    (TitledRequest /\ Len(InputList) = 0) =>
        /\ Len(calls) <= 1
        /\ \A k \in 1..Len(calls) : calls[k].api = "products"
        /\ pc = "done" =>
              /\ Len(calls) = 1
              /\ (calls[1].result = "ok" /\ created # Undef) =>
                    Len(responses) = 1 /\ Status = 200 /\ IsSuccessBody(Body)

\* C12: for an authenticated POST request, when the store or the admin token
\* is absent the response is 500 with ok: false, never 400, whatever the
\* payload is (a payload without title included), and no outbound call is
\* issued.
C12_ConfigMissingIs500 ==
    (Authenticated /\ (Falsy(env.store) \/ Falsy(env.token))) =>
        /\ calls = <<>>
        /\ pc \in {"start", "done"}
        /\ pc = "done" =>
              Len(responses) = 1 /\ Status = 500 /\ IsFailureBody(Body)

\* The apis of the per-variant calls: the inventory level, and the cost on
\* either resource.
VariantApis == {"inventory_levels/set", "inventory_items", "variants"}

\* C13: the outbound calls of a request come in phase order: the first
\* outbound call is the product-creation call, a locations fetch comes only
\* after a creation call that succeeded, a set-inventory call or a cost update
\* only after a locations fetch that succeeded, and the response is sent after
\* the last outbound call was answered.
C13_PhaseOrder ==
    /\ calls # <<>> => calls[1].api = "products"
    /\ \A k \in CallsTo("locations") :
          \E m \in 1..(k - 1) : calls[m].api = "products" /\ calls[m].result = "ok"
    /\ \A k \in 1..Len(calls) :
          calls[k].api \in VariantApis =>
              \E m \in 1..(k - 1) :
                  calls[m].api = "locations" /\ calls[m].result = "ok"
    /\ Responded => \A k \in 1..Len(calls) : calls[k].result # "pending"

\* No call of the request failed or threw, but for cost updates answered with
\* a non-success status.
OnlyCostCallsFailed ==
    \A k \in 1..Len(calls) :
        \/ calls[k].result = "ok"
        \/ calls[k].api \in {"inventory_items", "variants"} /\ calls[k].result = "fail"

\* C14: when a cost update for a variant is answered with a non-success
\* status (and nothing else goes wrong), the request is not aborted: the
\* response is 200 with ok: true and the created product, and the cost of
\* every later created variant whose paired input has one is still written.
\* Stated for the requests whose pairing is unambiguous, and for a cost update
\* on either resource.
C14_CostFailureTolerated ==
    (/\ pc = "done"
     /\ OnlyCostCallsFailed
     /\ PairingUnambiguous
     /\ \E k \in 1..Len(calls) : calls[k].result = "fail") =>
        /\ Len(responses) = 1 /\ Status = 200 /\ IsSuccessBody(Body)
        /\ \A i, j \in 1..Len(CreatedList) :
              (/\ i < j
               /\ \E k \in CostCallsFor(i) : calls[k].result = "fail"
               /\ PairedIndex(j) # 0
               /\ InputList[PairedIndex(j)].cost # Undef
               /\ CreatedList[j].inventory_item_id # Undef) =>
                  CostCallsFor(j) # {}

\* The variants in the body of a product-creation call; a field whose value is
\* undefined is not part of the JSON text that is sent.
SentVariants(k) ==
    IF IsArray(calls[k].body.product.variants)
    THEN calls[k].body.product.variants.v ELSE <<>>
HasField(v, f) == f \in DOMAIN v /\ v[f] # Undef

\* C15: the body of the product-creation call holds no cost field in any of
\* its variants, whatever the payload is, payloads whose variants carry a cost
\* included.
C15_NoCostInCreation ==
    \A k \in CallsTo("products") :
        \A m \in 1..Len(SentVariants(k)) : ~HasField(SentVariants(k)[m], "cost")

\* The location the specification selects in a list that is not empty: the
\* first entry flagged active, or the first entry when none is.
PreferredLocation(list) ==
    LET active == {m \in 1..Len(list) : list[m].active}
    IN IF active # {} THEN list[CHOOSE m \in active : \A n \in active : m <= n]
       ELSE list[1]

\* C16: the location of a set-inventory call is the first entry flagged
\* active of the locations list fetched before it, and the first entry only
\* when no entry is flagged active.  Stated for the set-inventory calls that
\* no locations fetch follows, whose list is the one last fetched.
C16_ActiveLocationPreferred ==
    \A k \in CallsTo("inventory_levels/set") :
        (\A m \in CallsTo("locations") : m < k) =>
            /\ locations # Undef /\ Len(locations.v) > 0
            /\ calls[k].body.location_id = PreferredLocation(locations.v).id

\* C17: the cost of a variant is written with a PUT on the inventory-item
\* resource named by the inventory_item_id of a created variant; no call to a
\* variants/{id} resource is ever issued.
C17_CostOnInventoryItem ==
    \A k \in 1..Len(calls) :
        /\ calls[k].api # "variants"
        /\ calls[k].api = "inventory_items" =>
              /\ calls[k].method = "PUT"
              /\ \E j \in 1..Len(CreatedList) :
                    calls[k].id = CreatedList[j].inventory_item_id

\* Created variant j has no paired input variant, or no inventory_item_id.
Skipped(j) == PairedIndex(j) = 0 \/ CreatedList[j].inventory_item_id = Undef

\* C18: a created variant without paired input variant, or without
\* inventory_item_id, is skipped without error: no set-inventory call and no
\* cost update is issued for it, and none at all names an undefined inventory
\* item; the other created variants are still reconciled, and a request in
\* which no call fails is answered 200 with ok: true.
C18_UnpairedSkipped ==
    /\ \A k \in CallsTo("inventory_levels/set") :
          calls[k].body.inventory_item_id # Undef
    /\ \A k \in CallsTo("inventory_items") : calls[k].id # Undef
    /\ \A j \in 1..Len(CreatedList) :
          Skipped(j) => SetCallsFor(j) = {} /\ CostCallsFor(j) = {}
    /\ (/\ pc = "done"
        /\ created # Undef
        /\ \A k \in 1..Len(calls) : calls[k].result = "ok"
        /\ locations = Undef \/ Len(locations.v) > 0
        /\ \E j \in 1..Len(CreatedList) : Skipped(j)) =>
           /\ Len(responses) = 1 /\ Status = 200 /\ IsSuccessBody(Body)
           /\ PairingUnambiguous =>
                 \A j \in 1..Len(CreatedList) :
                    (~Skipped(j) /\ InputList[PairedIndex(j)].cost # Undef) =>
                        CostCallsFor(j) # {}

\* The per-variant calls made for created variant j.
CallsFor(j) == SetCallsFor(j) \cup CostCallsFor(j)

\* C19: the per-variant calls are issued one at a time in the order of the
\* created product's variants: every call for created variant i comes before
\* every call for a later created variant j, the set-inventory call of one
\* variant comes before its cost update, and a call is issued only when every
\* earlier call of the request was answered.  Stated for the created
\* variants that carry an inventory_item_id.
C19_Sequential ==
    /\ \A i, j \in 1..Len(CreatedList) :
          (/\ i < j
           /\ CreatedList[i].inventory_item_id # Undef
           /\ CreatedList[j].inventory_item_id # Undef) =>
              \A k \in CallsFor(i) : \A m \in CallsFor(j) : k < m
    /\ \A j \in 1..Len(CreatedList) :
          CreatedList[j].inventory_item_id # Undef =>
              \A k \in SetCallsFor(j) : \A m \in CostCallsFor(j) : k < m
    /\ \A k \in 1..(Len(calls) - 1) : calls[k].result # "pending"

\* C20: the pairing is one-to-one: no input variant is paired with two
\* created variants, whatever skus are present on either side.  The quantity
\* of an input variant names its position in the payload, so that two
\* set-inventory calls of one request never carry the same quantity.
C20_PairingOneToOne ==
    \A k, m \in CallsTo("inventory_levels/set") :
        k # m => ToNumber(calls[k].body.available) # ToNumber(calls[m].body.available)

\* C21: no outbound call is retried: a request issues at most one
\* product-creation call, at most one locations fetch whatever the number of
\* its variants, and for each created variant at most one set-inventory call
\* and at most one cost update, whether those calls fail or not.
C21_NoRetry ==
    /\ Cardinality(CallsTo("products")) <= 1
    /\ Cardinality(CallsTo("locations")) <= 1
    /\ Cardinality(CallsTo("inventory_levels/set")) <= Len(CreatedList)
    /\ \A j \in 1..Len(CreatedList) :
          CreatedList[j].inventory_item_id # Undef =>
              /\ Cardinality(SetCallsFor(j)) <= 1
              /\ Cardinality(CostCallsFor(j)) <= 1

\* The creation call was answered with a success status and no product.
CreatedNoProduct ==
    /\ \E k \in CallsTo("products") : calls[k].result = "ok"
    /\ created = Undef

\* C22: when the product-creation call is answered with a success status but
\* its answer carries no product, the request fails with 500 and ok: false, and
\* it holds no locations fetch, no set-inventory call and no cost update.
C22_NoProductIs500 ==
    CreatedNoProduct =>
        /\ Len(responses) = 1 /\ Status = 500 /\ IsFailureBody(Body)
        /\ \A k \in 1..Len(calls) : calls[k].api = "products"

\* typeof v is "number" and v is a number a JSON text can carry.
NumericQuantity(v) == v.t = "number"

\* C23: a set-inventory call is issued for a created variant exactly when its
\* paired input variant has a numeric inventory_quantity and the variant has
\* an inventory_item_id: every set-inventory call is made for such a variant
\* and carries the input quantity as its available value, so that a quantity
\* that is absent, null or not a number yields no call; and a request that
\* ends well, with one locations fetch answered with a list that is not empty,
\* has made the call for every such variant.
C23_NumericQuantityOnly ==
    /\ \A k \in CallsTo("inventory_levels/set") :
          \E j \in 1..Len(CreatedList) :
              /\ CreatedList[j].inventory_item_id # Undef
              /\ calls[k].body.inventory_item_id = CreatedList[j].inventory_item_id
              /\ PairedIndex(j) # 0
              /\ NumericQuantity(InputList[PairedIndex(j)].inventory_quantity)
              /\ calls[k].body.available = InputList[PairedIndex(j)].inventory_quantity
    /\ (/\ pc = "done" /\ Responded /\ Status = 200
        /\ PairingUnambiguous
        /\ \A k \in 1..Len(calls) : calls[k].result = "ok"
        /\ Cardinality(CallsTo("locations")) = 1
        /\ locations # Undef /\ Len(locations.v) > 0) =>
           \A j \in 1..Len(CreatedList) :
              (/\ CreatedList[j].inventory_item_id # Undef
               /\ PairedIndex(j) # 0
               /\ NumericQuantity(InputList[PairedIndex(j)].inventory_quantity)) =>
                  SetCallsFor(j) # {}

\* C24: every request ends with exactly one response, when every outbound
\* call is answered or throws in the end: at no time have two responses been
\* sent, a response is sent only when no call is in flight, nothing is called
\* or sent after the response, and a response is sent in the end, on every
\* path (rejection at the gate, failure of the creation call or of the
\* locations fetch, failure of a per-variant call, exception, success).
C24_ExactlyOneResponse ==
    /\ [](Len(responses) <= 1)
    /\ [](Responded =>
            /\ pc = "done"
            /\ \A k \in 1..Len(calls) : calls[k].result # "pending")
    /\ [][Responded => (calls' = calls /\ responses' = responses)]_vars
    /\ <>(Len(responses) = 1)

C24_Witness ==
    /\ pc = "done" /\ Len(responses) = 1 /\ Status = 500
    /\ \E k \in 1..Len(calls) :
          calls[k].api \in VariantApis /\ calls[k].result = "throw"

\* The running request sends its own payload to the creation call, and makes
\* per-variant calls only when its own payload has variants.
OwnPayloadSent ==
    /\ \A k \in CallsTo("products") :
          /\ calls[k].body.product.title = req.body.title
          /\ Len(SentVariants(k)) = Len(InputList)
    /\ \A k \in 1..Len(calls) :
          calls[k].api \in VariantApis => Len(InputList) > 0

====
